---------------------------- MODULE Spec2Model ----------------------------
(***************************************************************************)
(* Trellis configuration parser (src/trellis-conf.c) and Dakota bitmap     *)
(* exporter (src/bitmap-export.c) as state machines.                       *)
(*                                                                         *)
(* The input stream is a sequence of one-character strings.  Every fscanf  *)
(* format of the parser is an operator that consumes characters the way    *)
(* the C library does: it returns the count fscanf returns, the tokens it  *)
(* stored, the new stream position and whether the scan ran into the end   *)
(* of the delivered data.                                                  *)
(***************************************************************************)
EXTENDS Integers, Sequences, FiniteSets, TLC

VARIABLES
    src,        \* the pieces the input text was assembled from (derivation)
    inp,        \* the characters the stream delivers
    faulty,     \* TRUE: the stream ends in a read fault, not in end of file
    schar,      \* TRUE: the build's plain char is signed
    pos,        \* number of characters consumed from the stream
    ioerr,      \* the stream's error indicator, ferror (in)
    calls,      \* the action-interface calls made so far, with their results
    ok,         \* the reader result the enclosing loops test
    error,      \* o->error, the message buffer
    errWrites,  \* number of conf_error calls made during this read_conf
    live,       \* token strings allocated by %m and not yet freed
    index,      \* read_bram: index
    i,          \* read_bram: i
    pc,         \* "top", "tile", "bram", "done"
    result,     \* value read_conf returned
    bm,         \* bitmap_export: the bitmap o
    hdr,        \* bitmap_export: header characters in the file
    payload,    \* bitmap_export: payload bytes in the file
    y,          \* bitmap_export: y
    x,          \* bitmap_export: x
    werr,       \* bitmap_export: a write of the stream has failed
    opens,      \* bitmap_export: successful fopen calls
    closes,     \* bitmap_export: fclose calls
    removed,    \* bitmap_export: remove (path) was called
    bpc,        \* "idle", "open", "header", "rows", "error", "done", "abort"
    bres        \* value bitmap_export returned

confvars == <<src, inp, faulty, schar, pos, ioerr, calls, ok, error,
              errWrites, live, index, i, pc, result>>
bmpvars  == <<bm, hdr, payload, y, x, werr, opens, closes, removed, bpc, bres>>
vars     == <<confvars, bmpvars>>

---------------------------------------------------------------------------
(* Characters and the C library's character classes                        *)

Space == {" ", "\t", "\n", "\r"}
Blank == {" ", "\t"}
NL    == {"\n"}
EOF   == "EOF"

DecChars == <<"0", "1", "2", "3", "4", "5", "6", "7", "8", "9">>
HexLower == DecChars \o <<"a", "b", "c", "d", "e", "f">>
HexUpper == DecChars \o <<"A", "B", "C", "D", "E", "F">>
Range(f) == {f[k] : k \in DOMAIN f}
IsDec(c) == c \in Range(DecChars)
IsHex(c) == c \in Range(HexLower) \cup Range(HexUpper)
HexVal(c) == CHOOSE v \in 0..15 : c \in {HexLower[v + 1], HexUpper[v + 1]}

RECURSIVE NumVal(_, _)
\* value of a digit string in the given base
NumVal(t, base) ==
    IF t = <<>> THEN 0
    ELSE NumVal(SubSeq(t, 1, Len(t) - 1), base) * base + HexVal(t[Len(t)])

---------------------------------------------------------------------------
(* Scanning primitives: positions are counts of consumed characters        *)

RECURSIVE SpanIn(_, _, _)
\* consume characters while they belong to In
SpanIn(s, p, In) ==
    IF p < Len(s) /\ s[p + 1] \in In THEN SpanIn(s, p + 1, In) ELSE p

RECURSIVE SpanOut(_, _, _, _)
\* consume at most max characters while they do not belong to Stop
SpanOut(s, p, Stop, max) ==
    IF max > 0 /\ p < Len(s) /\ s[p + 1] \notin Stop
    THEN SpanOut(s, p + 1, Stop, max - 1)
    ELSE p

RECURSIVE SpanHex(_, _)
SpanHex(s, p) == IF p < Len(s) /\ IsHex(s[p + 1]) THEN SpanHex(s, p + 1) ELSE p

RECURSIVE SpanDec(_, _)
SpanDec(s, p) == IF p < Len(s) /\ IsDec(s[p + 1]) THEN SpanDec(s, p + 1) ELSE p

\* a scan result: n is what fscanf returns (-1 is EOF), hit tells that the
\* scan tried to read past the delivered data
Scan(n, p, hit, t1, t2, v) ==
    [n |-> n, pos |-> p, hit |-> hit, t1 |-> t1, t2 |-> t2, v |-> v]

\* a conversion that matched nothing at position a: an input failure (EOF)
\* at the end of the data, a matching failure (0) before it
Unmatched(s, a) == Scan(IF a = Len(s) THEN -1 ELSE 0, a, a = Len(s), <<>>, <<>>, 0)

NoWidth(s) == Len(s) + 1

\* "%s" after its leading white space, which ended at a; b is where the
\* token ends
TokAt(s, a, b, width) ==
    IF a = Len(s) THEN Unmatched(s, a)
    ELSE Scan(1, b, b = Len(s) /\ b - a < width, SubSeq(s, a + 1, b), <<>>, 0)

TokFrom(s, a, width) == TokAt(s, a, SpanOut(s, a, Space, width), width)

\* "%s" with a field width, and "%ms" (NoWidth)
ScanTok(s, p, width) == TokFrom(s, SpanIn(s, p, Space), width)

\* the byte 0xFF, which converts to -1, the value of EOF, where char is signed
Byte255 == "0xFF"

\* fscanf (in, " %c", &la) followed by ungetc (la, in), la being a char:
\* where char is signed the byte 0xFF is returned as EOF, and ungetc (EOF)
\* puts nothing back
NsAt(s, a) ==
    IF a = Len(s)
    THEN [la |-> EOF, pos |-> a, hit |-> TRUE]
    ELSE IF s[a + 1] = Byte255 /\ schar
    THEN [la |-> EOF, pos |-> a + 1, hit |-> FALSE]
    ELSE [la |-> s[a + 1], pos |-> a, hit |-> FALSE]

next_ns(s, p) == NsAt(s, SpanIn(s, p, Space))

\* fscanf (in, "#%*[^\n]") with '#' as the next character: the position
\* after the comment
ScanHashLine(s, p) == SpanOut(s, p + 1, NL, NoWidth(s))

RECURSIVE next_entry(_, _)
EntryAt(s, ns) ==
    IF ns.la = "#"
    THEN next_entry(s, ScanHashLine(s, ns.pos))
    ELSE [more |-> ns.la # EOF, pos |-> ns.pos, hit |-> ns.hit]

next_entry(s, p) == EntryAt(s, next_ns(s, p))

RecordAt(ns) ==
    [more |-> ns.la # EOF /\ ns.la # ".", pos |-> ns.pos, hit |-> ns.hit]

next_record(s, p) == RecordAt(next_ns(s, p))

\* fscanf (in, "%15s", buf)
VerbWidth == 15

\* a variant that reads the token without a field width
ScanWordUnbounded(s, p) == ScanTok(s, p, NoWidth(s))

ScanWord(s, p) == ScanTok(s, p, VerbWidth)

\* "%*[ \t]" from p to b, then the rest of the format, whose result is rest
AfterBlanks(s, p, b, rest) ==
    IF b = p THEN Scan(IF b = Len(s) THEN -1 ELSE 0, p, b = Len(s), <<>>, <<>>, 0)
    ELSE rest

\* fscanf (in, "%*[ \t]%ms", &name)
NameAt(s, p, b) == AfterBlanks(s, p, b, ScanTok(s, b, NoWidth(s)))

ScanName(s, p) == NameAt(s, p, SpanIn(s, p, Blank))

\* fscanf (in, "%*[ \t]%ms%*[ \t]%ms", &a, &b): f is the scan of the first
\* two directives, g that of the last two from where f ended
PairOf(f, g) ==
    IF f.n # 1 THEN f
    ELSE IF g.n # 1 THEN Scan(1, g.pos, g.hit, f.t1, <<>>, 0)
    ELSE Scan(2, g.pos, g.hit, f.t1, g.t1, 0)

PairAt(s, f) == PairOf(f, ScanName(s, f.pos))

ScanPair(s, p) == PairAt(s, ScanName(s, p))

\* fscanf (in, "%*[ \t]%m[^\n]", &value)
LineTo(s, b, e) ==
    IF e = b THEN Unmatched(s, b)
    ELSE Scan(1, e, e = Len(s), SubSeq(s, b + 1, e), <<>>, 0)

LineAt(s, p, b) ==
    AfterBlanks(s, p, b, LineTo(s, b, SpanOut(s, b, NL, NoWidth(s))))

ScanLine(s, p) == LineAt(s, p, SpanIn(s, p, Blank))

\* "%u" and "%x" after their leading white space, which ended at a, with
\* digits from d to e
NumTo(s, a, d, e, base) ==
    IF e = a THEN Unmatched(s, a)
    ELSE Scan(1, e, e = Len(s), <<>>, <<>>, NumVal(SubSeq(s, d + 1, e), base))

\* "%u"; the input alphabet has no sign
DecFrom(s, a) == NumTo(s, a, a, SpanDec(s, a), 10)

\* fscanf (in, "%*[ \t]%u", &index)
IndexAt(s, p, b) == AfterBlanks(s, p, b, DecFrom(s, SpanIn(s, b, Space)))

ScanIndex(s, p) == IndexAt(s, p, SpanIn(s, p, Blank))

\* "%x": an optional "0x" prefix, then hex digits
HexPrefix(s, a) ==
    IF a + 1 < Len(s) /\ s[a + 1] = "0" /\ s[a + 2] \in {"x", "X"} THEN a + 2 ELSE a

HexDigits(s, a, d) == NumTo(s, a, d, SpanHex(s, d), 16)

HexFrom(s, a) == HexDigits(s, a, HexPrefix(s, a))

\* fscanf (in, "%x", &value)
ScanHex(s, p) == HexFrom(s, SpanIn(s, p, Space))

---------------------------------------------------------------------------
(* Literal tokens compared by match                                        *)

V_device     == <<".", "d", "e", "v", "i", "c", "e">>
V_comment    == <<".", "c", "o", "m", "m", "e", "n", "t">>
V_sysconfig  == <<".", "s", "y", "s", "c", "o", "n", "f", "i", "g">>
V_tile       == <<".", "t", "i", "l", "e">>
V_tile_group == <<".", "t", "i", "l", "e", "_", "g", "r", "o", "u", "p">>
V_bram_init  == <<".", "b", "r", "a", "m", "_", "i", "n", "i", "t">>
K_arc        == <<"a", "r", "c", ":">>
K_word       == <<"w", "o", "r", "d", ":">>
K_enum       == <<"e", "n", "u", "m", ":">>
K_unknown    == <<"u", "n", "k", "n", "o", "w", "n", ":">>

match(a, b) == a = b

Verbs    == {V_device, V_comment, V_sysconfig, V_tile, V_tile_group, V_bram_init}
Keywords == {K_arc, K_word, K_enum, K_unknown}

---------------------------------------------------------------------------
(* Action-interface calls and error messages                               *)

\* a call and, in ret, the value it returned
Call(fn, a, b, n1, n2, n3) ==
    [fn |-> fn, a |-> a, b |-> b, n1 |-> n1, n2 |-> n2, n3 |-> n3, ret |-> 1]

on_device(name)       == Call("on_device", name, <<>>, 0, 0, 0)
on_comment(value)     == Call("on_comment", value, <<>>, 0, 0, 0)
on_sysconfig(name, v) == Call("on_sysconfig", name, v, 0, 0, 0)
on_tile(name)         == Call("on_tile", name, <<>>, 0, 0, 0)
on_arc(sink, source)  == Call("on_arc", sink, source, 0, 0, 0)
on_word(name, v)      == Call("on_word", name, v, 0, 0, 0)
on_enum(name, v)      == Call("on_enum", name, v, 0, 0, 0)
on_unknown(v)         == Call("on_unknown", v, <<>>, 0, 0, 0)
on_bram(k)            == Call("on_bram", <<>>, <<>>, k, 0, 0)
on_data(k, p, v)      == Call("on_data", <<>>, <<>>, k, p, v)
on_commit             == Call("on_commit", <<>>, <<>>, 0, 0, 0)

Msg(fmt, arg) == [fmt |-> fmt, arg |-> arg]
NoMsg         == Msg("", <<>>)
StrError      == Msg("%s", <<"strerror (errno)">>)

---------------------------------------------------------------------------
(* The parser's state as a record, and the steps of the readers on it      *)

Cur == [inp |-> inp, faulty |-> faulty, pos |-> pos, ioerr |-> ioerr,
        calls |-> calls, ok |-> ok, error |-> error,
        errWrites |-> errWrites, live |-> live, index |-> index, i |-> i,
        pc |-> pc, result |-> result]

Start(s, fl) ==
    [inp |-> s, faulty |-> fl, pos |-> 0, ioerr |-> FALSE, calls |-> <<>>,
     ok |-> 1, error |-> NoMsg, errWrites |-> 0, live |-> 0,
     index |-> 0, i |-> 0, pc |-> "top", result |-> 1]

\* a variant in which a scan leaves the stream where it was
ReadStill(st, sc) == [st EXCEPT !.ioerr = @ \/ (st.faulty /\ sc.hit)]

\* the stream after a scan: characters consumed, error indicator set when
\* the scan ran into a read fault; live counts the strings %m has stored
Read(st, sc) ==
    [st EXCEPT !.pos = sc.pos, !.ioerr = @ \/ (st.faulty /\ sc.hit)]

Alloc(st, n) == [st EXCEPT !.live = @ + (IF n > 0 THEN n ELSE 0)]
Free(st, n)  == [st EXCEPT !.live = @ - n]

\* conf_error writes the buffer and yields 0, which the reader returns
conf_error(st, fmt, arg) ==
    [st EXCEPT !.error = Msg(fmt, arg), !.errWrites = @ + 1, !.ok = 0]

\* a variant that writes a message when the callback returns 0
InvokeNoting(st, c, r) ==
    IF r = 1 THEN [st EXCEPT !.calls = Append(@, [c EXCEPT !.ret = r]), !.ok = r]
    ELSE conf_error([st EXCEPT !.calls = Append(@, [c EXCEPT !.ret = r])],
                    "callback failed", <<>>)

\* o->action->on_... (o->cookie, ...) returning r
Invoke(st, c, r) ==
    [st EXCEPT !.calls = Append(@, [c EXCEPT !.ret = r]), !.ok = r]

\* a leaf reader whose fscanf gave sc: fewer than want fields is an error,
\* otherwise the call is made and the strings are freed
Leaf(st, sc, want, msg, c, r) ==
    IF sc.n # want THEN conf_error(Alloc(Read(st, sc), sc.n), msg, <<>>)
    ELSE Free(Invoke(Alloc(Read(st, sc), sc.n), c, r), want)

\* back in read_conf's loop with the reader's result in ok
ToTop(st) == [st EXCEPT !.pc = "top"]

\* a variant that goes on into the loop whatever the result
EnterAlways(st, lp) == [st EXCEPT !.pc = lp]

\* the reader goes on into the loop lp if its result so far is 1
Enter(st, lp) == IF st.ok = 1 THEN [st EXCEPT !.pc = lp] ELSE ToTop(st)

device_sc(st, sc, r) ==
    Leaf(st, sc, 1, "device name required", on_device(sc.t1), r)
read_device(st, r) == device_sc(st, ScanName(st.inp, st.pos), r)

comment_sc(st, sc, r) ==
    Leaf(st, sc, 1, "empty comment", on_comment(sc.t1), r)
read_comment(st, r) == comment_sc(st, ScanLine(st.inp, st.pos), r)

sysconfig_sc(st, sc, r) ==
    Leaf(st, sc, 2, "sysconfig requres name and value", on_sysconfig(sc.t1, sc.t2), r)
read_sysconfig(st, r) == sysconfig_sc(st, ScanPair(st.inp, st.pos), r)

arc_sc(st, sc, r) ==
    Leaf(st, sc, 2, "arc requires sink and source", on_arc(sc.t1, sc.t2), r)
read_arc(st, r) == arc_sc(st, ScanPair(st.inp, st.pos), r)

word_sc(st, sc, r) ==
    Leaf(st, sc, 2, "word requires name and value", on_word(sc.t1, sc.t2), r)
read_word(st, r) == word_sc(st, ScanPair(st.inp, st.pos), r)

enum_sc(st, sc, r) ==
    Leaf(st, sc, 2, "enum requires name and value", on_enum(sc.t1, sc.t2), r)
read_enum(st, r) == enum_sc(st, ScanPair(st.inp, st.pos), r)

unknown_sc(st, sc, r) ==
    Leaf(st, sc, 1, "unknown requires value", on_unknown(sc.t1), r)
read_unknown(st, r) == unknown_sc(st, ScanName(st.inp, st.pos), r)

\* a loop condition "next (in) && fscanf (in, "%15s", buf) == 1", evaluated
\* with ok = 1: e is the result of next_entry or next_record
Fetched(st, e, w) ==
    IF ~e.more
    THEN [more |-> FALSE, st |-> Read(st, e), word |-> <<>>]
    ELSE [more |-> w.n = 1, st |-> Read(Read(st, e), w), word |-> w.t1]

FetchAt(st, e) == Fetched(st, e, ScanWord(st.inp, e.pos))

\* read_conf's loop condition
Fetch(st) == FetchAt(st, next_entry(st.inp, st.pos))

\* read_tile_conf's loop condition
FetchRecord(st) == FetchAt(st, next_record(st.inp, st.pos))

\* one pass of read_tile_conf's loop body
read_tile_record(st, type, r) ==
    IF match(type, K_arc)          THEN read_arc(st, r)
    ELSE IF match(type, K_word)    THEN read_word(st, r)
    ELSE IF match(type, K_enum)    THEN read_enum(st, r)
    ELSE IF match(type, K_unknown) THEN read_unknown(st, r)
    ELSE conf_error(st, "unknown tile record type '%s'", type)

\* a failed record ends read_tile_conf, and with it read_tile or
\* read_tile_group, with 0
TileRecord(st, type, r) == Enter(read_tile_record(st, type, r), "tile")

\* read_tile_conf after its loop: return ok ? on_commit : 0, reached here
\* with ok = 1
TileCommit(st, r) == ToTop(Invoke(st, on_commit, r))

\* read_tile up to its call of read_tile_conf
tile_sc(st, sc, r) ==
    Enter(Leaf(st, sc, 1, "tile name required", on_tile(sc.t1), r), "tile")
read_tile(st, r) == tile_sc(st, ScanName(st.inp, st.pos), r)

RECURSIVE GroupNames(_, _, _)
\* read_tile_group's while loop; k on_tile calls made so far, the f-th
\* on_tile call of the group returns 0
GroupName(st, sc, k, f) ==
    IF sc.n # 1 THEN Alloc(Read(st, sc), sc.n)
    ELSE GroupNames(Free(Invoke(Alloc(Read(st, sc), sc.n), on_tile(sc.t1),
                                IF k + 1 = f THEN 0 ELSE 1), 1), k + 1, f)

\* a variant that goes on reading names after a failed on_tile
GroupNamesOn(st, k, f) == GroupName(st, ScanName(st.inp, st.pos), k, f)

GroupNames(st, k, f) ==
    IF st.ok # 1 THEN st ELSE GroupName(st, ScanName(st.inp, st.pos), k, f)

\* read_tile_group up to its call of read_tile_conf
group_sc(st, sc, f) ==
    IF sc.n # 1 THEN conf_error(Alloc(Read(st, sc), sc.n), "tile name required", <<>>)
    ELSE Enter(GroupNames(Leaf(st, sc, 1, "tile name required", on_tile(sc.t1),
                               IF f = 1 THEN 0 ELSE 1), 1, f), "tile")
read_tile_group(st, f) == group_sc(st, ScanName(st.inp, st.pos), f)

\* read_bram up to its loop
bram_sc(st, sc, r) ==
    IF sc.n # 1 THEN conf_error(Read(st, sc), "bram index required", <<>>)
    ELSE Enter(Invoke([Read(st, sc) EXCEPT !.index = sc.v, !.i = 0],
                      on_bram(sc.v), r), "bram")
read_bram(st, r) == bram_sc(st, ScanIndex(st.inp, st.pos), r)

\* one pass of read_bram's loop body, then ++i
\* a variant that passes the position on without counting
data_sc_same_i(st, sc, r) ==
    IF sc.n # 1 THEN conf_error(Read(st, sc), "hex bram value required", <<>>)
    ELSE Invoke(Read(st, sc), on_data(st.index, st.i, sc.v), r)

data_sc(st, sc, r) ==
    IF sc.n # 1 THEN conf_error(Read(st, sc), "hex bram value required", <<>>)
    ELSE [Invoke(Read(st, sc), on_data(st.index, st.i, sc.v), r) EXCEPT !.i = @ + 1]
BramData(st, r) == Enter(data_sc(st, ScanHex(st.inp, st.pos), r), "bram")

\* read_bram after its loop, reached here with ok = 1
BramCommit(st, r) == ToTop(Invoke(st, on_commit, r))

\* one pass of read_conf's loop body; f tells which action-interface call
\* of the reader returns 0 (none when f = 0)
Dispatch(st, verb, f) ==
    IF match(verb, V_device)          THEN read_device(st, 1 - f)
    ELSE IF match(verb, V_comment)    THEN read_comment(st, 1 - f)
    ELSE IF match(verb, V_sysconfig)  THEN read_sysconfig(st, 1 - f)
    ELSE IF match(verb, V_tile)       THEN read_tile(st, 1 - f)
    ELSE IF match(verb, V_tile_group) THEN read_tile_group(st, f)
    ELSE IF match(verb, V_bram_init)  THEN read_bram(st, 1 - f)
    ELSE conf_error(st, "unknown verb '%s'", verb)

\* a variant that returns ok without testing ferror (in)
ReturnedNoFerror(st) == [st EXCEPT !.pc = "done", !.result = st.ok]

\* a variant that writes the platform's error description on every failure
ReturnedDescribing(st) ==
    IF st.ioerr \/ st.ok # 1
    THEN [conf_error(st, StrError.fmt, StrError.arg) EXCEPT !.pc = "done", !.result = 0]
    ELSE [st EXCEPT !.pc = "done", !.result = st.ok]

\* read_conf's return statement: ferror (in) ? conf_error (...) : ok
Returned(st) ==
    IF st.ioerr
    THEN [conf_error(st, StrError.fmt, StrError.arg) EXCEPT !.pc = "done", !.result = 0]
    ELSE [st EXCEPT !.pc = "done", !.result = st.ok]

\* the end of read_conf's loop (its condition is evaluated unless ok is 0)
\* and the return
Return(st) == Returned(IF st.ok = 1 THEN Fetch(st).st ELSE st)

---------------------------------------------------------------------------
(* Input texts: a text is the concatenation of pieces.  A piece carries its *)
(* characters and its reading by the grammar: kind "leaf" is a one-line     *)
(* entry, "tile" a .tile or .tile_group header, "rec" a tile record, "bram" *)
(* a .bram_init header, "hex" a line of hex values, "cmt" a comment line,   *)
(* "bad" a line the grammar does not derive.                                *)

Piece(txt, kind, cs, vals, idx) ==
    [txt |-> txt, kind |-> kind, calls |-> cs, vals |-> vals, idx |-> idx]

P_device ==
    Piece(<<".", "d", "e", "v", "i", "c", "e", " ", "x", "\n">>,
          "leaf", <<on_device(<<"x">>)>>, <<>>, 0)
P_device_sp ==
    Piece(<<".", "d", "e", "v", "i", "c", "e", " ", "\n">>,
          "bad", <<>>, <<>>, 0)
P_device_nl ==
    Piece(<<".", "d", "e", "v", "i", "c", "e", "\n">>,
          "bad", <<>>, <<>>, 0)
P_comment ==
    Piece(<<".", "c", "o", "m", "m", "e", "n", "t", " ", "a", " ", "b", "\n">>,
          "leaf", <<on_comment(<<"a", " ", "b">>)>>, <<>>, 0)
P_sysconfig ==
    Piece(<<".", "s", "y", "s", "c", "o", "n", "f", "i", "g", " ", "a", " ", "b", "\n">>,
          "leaf", <<on_sysconfig(<<"a">>, <<"b">>)>>, <<>>, 0)
P_sysconfig_1 ==
    Piece(<<".", "s", "y", "s", "c", "o", "n", "f", "i", "g", " ", "a", "\n">>,
          "bad", <<>>, <<>>, 0)
P_tile ==
    Piece(<<".", "t", "i", "l", "e", " ", "A", "\n">>,
          "tile", <<on_tile(<<"A">>)>>, <<>>, 0)
P_group ==
    Piece(<<".", "t", "i", "l", "e", "_", "g", "r", "o", "u", "p", " ", "A", " ", "B", "\n">>,
          "tile", <<on_tile(<<"A">>), on_tile(<<"B">>)>>, <<>>, 0)
P_group_sp ==
    Piece(<<".", "t", "i", "l", "e", "_", "g", "r", "o", "u", "p", " ", "A", " ", "B", " ", "\n">>,
          "tile", <<on_tile(<<"A">>), on_tile(<<"B">>)>>, <<>>, 0)
P_arc ==
    Piece(<<"a", "r", "c", ":", " ", "x", " ", "y", "\n">>,
          "rec", <<on_arc(<<"x">>, <<"y">>)>>, <<>>, 0)
P_word ==
    Piece(<<"w", "o", "r", "d", ":", " ", "n", " ", "v", "\n">>,
          "rec", <<on_word(<<"n">>, <<"v">>)>>, <<>>, 0)
P_enum ==
    Piece(<<"e", "n", "u", "m", ":", " ", "n", " ", "v", "\n">>,
          "rec", <<on_enum(<<"n">>, <<"v">>)>>, <<>>, 0)
P_unknown ==
    Piece(<<"u", "n", "k", "n", "o", "w", "n", ":", " ", "v", "\n">>,
          "rec", <<on_unknown(<<"v">>)>>, <<>>, 0)
P_long ==
    Piece(<<"f", "r", "o", "b", "n", "i", "c", "a", "t", "e", "_", "l", "o", "n", "g", "_", "t", "o", "k", "e", "n", ":", " ", "q", "\n">>,
          "bad", <<>>, <<>>, 0)
P_bram ==
    Piece(<<".", "b", "r", "a", "m", "_", "i", "n", "i", "t", " ", "5", "\n">>,
          "bram", <<>>, <<>>, 5)
P_hex ==
    Piece(<<"0", "a", "\n">>,
          "hex", <<>>, <<10>>, 0)
P_hex2 ==
    Piece(<<"1", "b", " ", "2", "c", "\n">>,
          "hex", <<>>, <<27, 44>>, 0)
P_hash ==
    Piece(<<"#", " ", "c", "\n">>,
          "cmt", <<>>, <<>>, 0)
P_ff ==
    Piece(<<Byte255, "\n">>,
          "bad", <<>>, <<>>, 0)

Pieces ==
    <<P_device, P_device_sp, P_device_nl, P_comment, P_sysconfig,
      P_sysconfig_1, P_tile, P_group, P_group_sp, P_arc,
      P_word, P_enum, P_unknown, P_long, P_bram,
      P_hex, P_hex2, P_hash, P_ff>>

MaxPieces == 2
MaxCut    == 2

Srcs == UNION {[1..n -> DOMAIN Pieces] : n \in 0..MaxPieces}

RECURSIVE Text(_)
Text(ps) == IF ps = <<>> THEN <<>> ELSE Pieces[Head(ps)].txt \o Text(Tail(ps))

\* the text with its last c characters not delivered
Cut(s, c) == SubSeq(s, 1, IF c < Len(s) THEN Len(s) - c ELSE 0)

---------------------------------------------------------------------------
(* read_conf as a state machine                                            *)

Set(st) ==
    /\ pos' = st.pos
    /\ ioerr' = st.ioerr
    /\ calls' = st.calls
    /\ ok' = st.ok
    /\ error' = st.error
    /\ errWrites' = st.errWrites
    /\ live' = st.live
    /\ index' = st.index
    /\ i' = st.i
    /\ pc' = st.pc
    /\ result' = st.result
    /\ UNCHANGED <<src, inp, faulty, schar>>
    /\ UNCHANGED bmpvars

BmpIdle ==
    /\ bm = [width |-> 0, height |-> 0, pitch |-> 0, bits |-> <<>>, mask |-> <<>>]
    /\ hdr = <<>>
    /\ payload = <<>>
    /\ y = 0
    /\ x = 0
    /\ werr = FALSE
    /\ opens = 0
    /\ closes = 0
    /\ removed = FALSE
    /\ bpc = "idle"
    /\ bres = 0

Init ==
    /\ src \in Srcs
    /\ \E c \in 0..MaxCut : inp = Cut(Text(src), c)
    /\ faulty \in BOOLEAN
    /\ schar \in (IF Byte255 \in Range(inp) THEN BOOLEAN ELSE {TRUE})
    /\ pos = 0
    /\ ioerr = FALSE
    /\ calls = <<>>
    /\ ok = 1
    /\ error = NoMsg
    /\ errWrites = 0
    /\ live = 0
    /\ index = 0
    /\ i = 0
    /\ pc = "top"
    /\ result = 1
    /\ BmpIdle

\* the loop of read_conf reads verb and runs its reader
ConfArm(verb) ==
    \E ft \in {Fetch(Cur)} :
        /\ ft.more
        /\ match(ft.word, verb)
        /\ \E f \in {0, 1} : Set(Dispatch(ft.st, verb, f))

ConfDevice    == pc = "top" /\ ok = 1 /\ ConfArm(V_device)
ConfComment   == pc = "top" /\ ok = 1 /\ ConfArm(V_comment)
ConfSysconfig == pc = "top" /\ ok = 1 /\ ConfArm(V_sysconfig)
ConfTile      == pc = "top" /\ ok = 1 /\ ConfArm(V_tile)
ConfBram      == pc = "top" /\ ok = 1 /\ ConfArm(V_bram_init)

ConfTileGroup ==
    /\ pc = "top"
    /\ ok = 1
    /\ \E ft \in {Fetch(Cur)} :
          /\ ft.more
          /\ match(ft.word, V_tile_group)
          /\ \E f \in 0..Len(Dispatch(ft.st, V_tile_group, 0).calls) - Len(calls) :
                Set(Dispatch(ft.st, V_tile_group, f))

ConfUnknownVerb ==
    /\ pc = "top"
    /\ ok = 1
    /\ \E ft \in {Fetch(Cur)} :
          /\ ft.more
          /\ ft.word \notin Verbs
          /\ Set(Dispatch(ft.st, ft.word, 0))

\* the loop of read_tile_conf reads the record type and runs its reader
TileArm(type) ==
    \E ft \in {FetchRecord(Cur)} :
        /\ ft.more
        /\ match(ft.word, type)
        /\ \E r \in {0, 1} : Set(TileRecord(ft.st, type, r))

TileArc     == pc = "tile" /\ TileArm(K_arc)
TileWord    == pc = "tile" /\ TileArm(K_word)
TileEnum    == pc = "tile" /\ TileArm(K_enum)
TileUnknown == pc = "tile" /\ TileArm(K_unknown)

TileBadRecord ==
    /\ pc = "tile"
    /\ \E ft \in {FetchRecord(Cur)} :
          /\ ft.more
          /\ ft.word \notin Keywords
          /\ Set(TileRecord(ft.st, ft.word, 1))

TileEnd ==
    /\ pc = "tile"
    /\ \E ft \in {FetchRecord(Cur)} :
          /\ ~ft.more
          /\ \E r \in {0, 1} : Set(TileCommit(ft.st, r))

BramValue ==
    /\ pc = "bram"
    /\ \E e \in {next_record(inp, pos)} :
          /\ e.more
          /\ \E r \in {0, 1} : Set(BramData(Read(Cur, e), r))

BramEnd ==
    /\ pc = "bram"
    /\ \E e \in {next_record(inp, pos)} :
          /\ ~e.more
          /\ \E r \in {0, 1} : Set(BramCommit(Read(Cur, e), r))

ConfReturn ==
    /\ pc = "top"
    /\ ok # 1 \/ ~Fetch(Cur).more
    /\ Set(Return(Cur))

Next ==
    \/ ConfDevice
    \/ ConfComment
    \/ ConfSysconfig
    \/ ConfTile
    \/ ConfTileGroup
    \/ ConfBram
    \/ ConfUnknownVerb
    \/ TileArc
    \/ TileWord
    \/ TileEnum
    \/ TileUnknown
    \/ TileBadRecord
    \/ TileEnd
    \/ BramValue
    \/ BramEnd
    \/ ConfReturn

Spec == Init /\ [][Next]_vars

---------------------------------------------------------------------------
(* bitmap-export.c: 64-bit unsigned arithmetic on little-endian byte limbs *)

Limbs == 8

\* an unsigned char converted to unsigned long long
U64(b) == [k \in 1..Limbs |-> IF k = 1 THEN b ELSE 0]

K_spread == <<2, 8, 32, 128, 0, 0, 0, 0>>       \* 0x80200802ULL
K_select == <<16, 33, 66, 132, 8, 0, 0, 0>>     \* 0x0884422110ULL
K_gather == <<1, 1, 1, 1, 1, 0, 0, 0>>          \* 0x0101010101ULL

RECURSIVE Col(_, _, _, _)
Col(a, b, k, j) ==
    a[j + 1] * b[k - j + 1] + (IF j = 0 THEN 0 ELSE Col(a, b, k, j - 1))

RECURSIVE Carry(_, _, _)
Carry(a, b, k) ==
    IF k = 0 THEN 0
    ELSE (Col(a, b, k - 1, k - 1) + Carry(a, b, k - 1)) \div 256

\* a * b modulo 2^64
Mul64(a, b) == [k \in 1..Limbs |-> (Col(a, b, k - 1, k - 1) + Carry(a, b, k - 1)) % 256]

RECURSIVE AndBits(_, _, _)
AndBits(a, b, n) ==
    IF n = 0 THEN 0
    ELSE (a % 2) * (b % 2) + 2 * AndBits(a \div 2, b \div 2, n - 1)

And64(a, b) == [k \in 1..Limbs |-> AndBits(a[k], b[k], 8)]

Shr32(a) == [k \in 1..Limbs |-> IF k + 4 <= Limbs THEN a[k + 4] ELSE 0]

\* a variant that keeps 16 bits of the value
Low16(a) == a[1] + 256 * a[2]

\* the conversion of the 64-bit value to the unsigned char returned
Low8(a) == a[1]

sample_msb(b) ==
    Low8(Shr32(Mul64(And64(Mul64(U64(b), K_spread), K_select), K_gather)))

---------------------------------------------------------------------------
(* bitmap_export as a state machine                                        *)

MaxW    == 9
MaxH    == 2
MaxSeed == 1

\* byte values the bitmaps are filled with
Sample == <<1, 128, 165, 255, 90, 19>>

Fill(seed, n) == [k \in 1..n |-> Sample[((seed + k) % Len(Sample)) + 1]]

\* a bitmap whose rows hold at least width bits
Bitmap(w, h, p, seed) ==
    [width |-> w, height |-> h, pitch |-> p,
     bits |-> Fill(seed, p * h), mask |-> Fill(2 * seed + 2, p * h)]

Bitmaps ==
    {Bitmap(w, h, (w + 7) \div 8 + slack, seed) :
        w \in 0..MaxW, h \in 0..MaxH, slack \in 0..1, seed \in 0..MaxSeed}

RECURSIVE Dec(_)
Dec(n) == IF n < 10 THEN <<DecChars[n + 1]>> ELSE Dec(n \div 10) \o <<DecChars[(n % 10) + 1]>>

\* "P4\n%zu %zu\n"
Header(w, h) == <<"P", "4", "\n">> \o Dec(w) \o <<" ">> \o Dec(h) \o <<"\n">>

ConfIdle ==
    /\ src = <<>>
    /\ inp = <<>>
    /\ faulty = FALSE
    /\ schar = TRUE
    /\ pos = 0
    /\ ioerr = FALSE
    /\ calls = <<>>
    /\ ok = 1
    /\ error = NoMsg
    /\ errWrites = 0
    /\ live = 0
    /\ index = 0
    /\ i = 0
    /\ pc = "top"
    /\ result = 1

InitBmp ==
    /\ ConfIdle
    /\ bm \in Bitmaps
    /\ hdr = <<>>
    /\ payload = <<>>
    /\ y = 0
    /\ x = 0
    /\ werr = FALSE
    /\ opens = 0
    /\ closes = 0
    /\ removed = FALSE
    /\ bpc = "open"
    /\ bres = 0

OpenOk ==
    /\ bpc = "open"
    /\ opens' = opens + 1
    /\ bpc' = "header"
    /\ UNCHANGED <<bm, hdr, payload, y, x, werr, closes, removed, bres>>
    /\ UNCHANGED confvars

OpenFail ==
    /\ bpc = "open"
    /\ bpc' = "done"
    /\ bres' = 0
    /\ UNCHANGED <<bm, hdr, payload, y, x, werr, opens, closes, removed>>
    /\ UNCHANGED confvars

HeaderOk ==
    /\ bpc = "header"
    /\ hdr' = Header(bm.width, bm.height)
    /\ y' = 0
    /\ x' = 0
    /\ bpc' = "rows"
    /\ UNCHANGED <<bm, payload, werr, opens, closes, removed, bres>>
    /\ UNCHANGED confvars

HeaderFail ==
    /\ bpc = "header"
    /\ werr' = TRUE
    /\ bpc' = "error"
    /\ UNCHANGED <<bm, hdr, payload, y, x, opens, closes, removed, bres>>
    /\ UNCHANGED confvars

\* i = y * o->pitch + (x >> 3), as an index into bits and mask
ByteIndex(o, row, col) == row * o.pitch + (col \div 8) + 1

Sampled(o, k) == sample_msb(AndBits(o.bits[k], o.mask[k], 8))

\* one pass of the inner loop; the result of fputc is not looked at
PutByte ==
    /\ bpc = "rows"
    /\ y < bm.height
    /\ x < bm.width
    /\ payload' = Append(payload, Sampled(bm, ByteIndex(bm, y, x)))
    /\ x' = x + 1
    /\ UNCHANGED <<bm, hdr, y, werr, opens, closes, removed, bpc, bres>>
    /\ UNCHANGED confvars

\* the same pass when fputc fails; the model follows one failed write
PutByteFail ==
    /\ bpc = "rows"
    /\ y < bm.height
    /\ x < bm.width
    /\ ~werr
    /\ werr' = TRUE
    /\ x' = x + 1
    /\ UNCHANGED <<bm, hdr, payload, y, opens, closes, removed, bpc, bres>>
    /\ UNCHANGED confvars

RowEnd ==
    /\ bpc = "rows"
    /\ y < bm.height
    /\ x >= bm.width
    /\ y' = y + 1
    /\ x' = 0
    /\ UNCHANGED <<bm, hdr, payload, werr, opens, closes, removed, bpc, bres>>
    /\ UNCHANGED confvars

CloseOk ==
    /\ bpc = "rows"
    /\ y >= bm.height
    /\ closes' = closes + 1
    /\ bpc' = "done"
    /\ bres' = 1
    /\ UNCHANGED <<bm, hdr, payload, y, x, werr, opens, removed>>
    /\ UNCHANGED confvars

CloseFail ==
    /\ bpc = "rows"
    /\ y >= bm.height
    /\ closes' = closes + 1
    /\ werr' = TRUE
    /\ bpc' = "error"
    /\ UNCHANGED <<bm, hdr, payload, y, x, opens, removed, bres>>
    /\ UNCHANGED confvars

\* the error label, reached from the header with the stream still open
Error ==
    /\ bpc = "error"
    /\ closes = 0
    /\ closes' = closes + 1
    /\ removed' = TRUE
    /\ bpc' = "done"
    /\ bres' = 0
    /\ UNCHANGED <<bm, hdr, payload, y, x, werr, opens>>
    /\ UNCHANGED confvars

\* the error label, reached after fclose: the stream is closed again, which
\* the C library leaves undefined; the call returns or the process aborts
ErrorClosed ==
    /\ bpc = "error"
    /\ closes > 0
    /\ closes' = closes + 1
    /\ \E abort \in BOOLEAN :
        IF abort
        THEN bpc' = "abort" /\ UNCHANGED <<removed, bres>>
        ELSE bpc' = "done" /\ removed' = TRUE /\ bres' = 0
    /\ UNCHANGED <<bm, hdr, payload, y, x, werr, opens>>
    /\ UNCHANGED confvars

NextBmp ==
    \/ OpenOk
    \/ OpenFail
    \/ HeaderOk
    \/ HeaderFail
    \/ PutByte
    \/ PutByteFail
    \/ RowEnd
    \/ CloseOk
    \/ CloseFail
    \/ Error
    \/ ErrorClosed

SpecBmp == InitBmp /\ [][NextBmp]_vars

---------------------------------------------------------------------------
(* read_conf as a function: the run in which every callback returns 1      *)

TopStep(st, ft)  == IF ft.more THEN Dispatch(ft.st, ft.word, 0) ELSE Return(st)
TileStep(ft)     == IF ft.more THEN TileRecord(ft.st, ft.word, 1) ELSE TileCommit(ft.st, 1)
BramStep(st, e)  == IF e.more THEN BramData(Read(st, e), 1) ELSE BramCommit(Read(st, e), 1)

RunStep(st) ==
    IF st.pc = "tile" THEN TileStep(FetchRecord(st))
    ELSE IF st.pc = "bram" THEN BramStep(st, next_record(st.inp, st.pos))
    ELSE IF st.ok = 1 THEN TopStep(st, Fetch(st))
    ELSE Return(st)

RECURSIVE Run(_)
Run(st) == IF st.pc = "done" THEN st ELSE Run(RunStep(st))

read_conf(s, fl) == Run(Start(s, fl))

---------------------------------------------------------------------------
(* The grammar's reading of a text assembled from pieces                   *)

\* may a piece of this kind stand where the open block is blk
Fits(kind, blk) ==
    \/ kind \in {"leaf", "tile", "bram", "cmt"}
    \/ kind = "rec" /\ blk = "tile"
    \/ kind = "hex" /\ blk = "bram"

\* the block that is open after a piece of this kind
BlockAfter(kind, blk) ==
    IF kind \in {"tile", "bram"} THEN kind
    ELSE IF kind \in {"rec", "hex"} THEN blk
    ELSE "none"

RECURSIVE WellFormedFrom(_, _)
WellFormedFrom(ps, blk) ==
    \/ ps = <<>>
    \/ /\ Fits(Pieces[Head(ps)].kind, blk)
       /\ WellFormedFrom(Tail(ps), BlockAfter(Pieces[Head(ps)].kind, blk))

WellFormed(ps) == WellFormedFrom(ps, "none")

\* the commit that ends the open block when an entry of this kind begins
Closing(kind, blk) ==
    IF blk # "none" /\ kind \notin {"rec", "hex"} THEN <<on_commit>> ELSE <<>>

\* the data calls of a line of hex values, positions from n on
DataCalls(k, n, vals) == [j \in DOMAIN vals |-> on_data(k, n + j - 1, vals[j])]

\* the calls of one piece in block index k at position n
Own(pc0, k, n) ==
    IF pc0.kind = "bram" THEN <<on_bram(pc0.idx)>>
    ELSE IF pc0.kind = "hex" THEN DataCalls(k, n, pc0.vals)
    ELSE pc0.calls

RECURSIVE ExpectedFrom(_, _, _, _)
ExpectedPiece(pc0, rest, blk, k, n) ==
    Closing(pc0.kind, blk) \o Own(pc0, k, n)
      \o ExpectedFrom(rest, BlockAfter(pc0.kind, blk),
                      IF pc0.kind = "bram" THEN pc0.idx ELSE k,
                      IF pc0.kind = "hex" THEN n + Len(pc0.vals) ELSE 0)

ExpectedFrom(ps, blk, k, n) ==
    IF ps = <<>> THEN Closing("end", blk)
    ELSE ExpectedPiece(Pieces[Head(ps)], Tail(ps), blk, k, n)

\* one call per parsed unit, in input order
Expected(ps) == ExpectedFrom(ps, "none", 0, 0)

---------------------------------------------------------------------------
(* Properties of read_conf                                                 *)

\* the most recent action-interface call returned failure
CbFailed == calls # <<>> /\ calls[Len(calls)].ret = 0

\* the stream delivers the whole text of the pieces
Whole == inp = Text(src)

IsPrefix(a, b) == Len(a) <= Len(b) /\ SubSeq(b, 1, Len(a)) = a

Drop(ps, k) == SubSeq(ps, 1, k - 1) \o SubSeq(ps, k + 1, Len(ps))

RECURSIVE Leading(_, _)
\* number of leading pieces of the given kind
Leading(ps, kind) ==
    IF ps # <<>> /\ Pieces[Head(ps)].kind = kind THEN 1 + Leading(Tail(ps), kind) ELSE 0

\* the pieces begin with a block of m body pieces that a '.' verb or the end
\* of the text ends
EndsAt(ps, m) ==
    \/ Len(ps) = m + 1
    \/ Len(ps) > m + 1 /\ Pieces[ps[m + 2]].txt[1] = "."

\* the token in full that starts after position a
TokenAt(s, a) == SubSeq(s, a + 1, SpanOut(s, a, Space, NoWidth(s)))

Take(t, n) == SubSeq(t, 1, IF Len(t) < n THEN Len(t) ELSE n)

(* C1: for every text that is a sequence of entries of the grammar, with    *)
(* every callback returning success and no read fault, read_conf returns    *)
(* success and makes exactly the calls of the parsed units, in input order. *)
C1_WellFormedExact ==
    (pc = "done" /\ Whole /\ ~faulty /\ WellFormed(src) /\ ~CbFailed)
        => (result = 1 /\ calls = Expected(src))

(* C2: a comment line between entries, first or last, changes neither the   *)
(* result nor the calls: they are those of the text without that line.      *)
C2_CommentTransparent ==
    (pc = "done" /\ Whole /\ ~faulty /\ WellFormed(src) /\ ~CbFailed)
        => \A k \in DOMAIN src :
              Pieces[src[k]].kind = "cmt"
                 => /\ result = read_conf(Text(Drop(src, k)), FALSE).result
                    /\ calls = read_conf(Text(Drop(src, k)), FALSE).calls

\* the text begins with a .tile_group entry that has body records
IsGroupEntry(ps) ==
    /\ ps # <<>>
    /\ Pieces[ps[1]] \in {P_group, P_group_sp}
    /\ Leading(Tail(ps), "rec") >= 1
    /\ EndsAt(ps, Leading(Tail(ps), "rec"))

(* C3: a .tile_group entry with n names and body records, ended by a '.'    *)
(* verb or the end of the stream, gives n on_tile calls in name order, then *)
(* the calls of the body records, then one on_commit.                       *)
C3_GroupOneCommit ==
    (pc = "done" /\ Whole /\ ~faulty /\ ~CbFailed /\ IsGroupEntry(src))
        => IsPrefix(Expected(SubSeq(src, 1, 1 + Leading(Tail(src), "rec"))), calls)

\* the text begins with a .bram_init entry
IsBramEntry(ps) ==
    /\ ps # <<>>
    /\ Pieces[ps[1]].kind = "bram"
    /\ EndsAt(ps, Leading(Tail(ps), "hex"))

\* every on_data call follows on_bram with position 0 or the on_data call
\* of the position before, and carries the index of its on_bram
DataInSequence ==
    \A k \in DOMAIN calls :
        calls[k].fn = "on_data"
           => /\ k > 1
              /\ calls[k].n1 = calls[k - 1].n1
              /\ \/ calls[k - 1].fn = "on_bram" /\ calls[k].n2 = 0
                 \/ calls[k - 1].fn = "on_data" /\ calls[k].n2 = calls[k - 1].n2 + 1

(* C4: a .bram_init entry with index k and m hex values gives on_bram(k),   *)
(* then on_data(k, p, v_p) for p = 0 .. m-1 in input order, positions       *)
(* consecutive from 0, then one on_commit.                                  *)
C4_BramPositions ==
    /\ DataInSequence
    /\ (pc = "done" /\ Whole /\ ~CbFailed /\ IsBramEntry(src))
          => IsPrefix(Expected(SubSeq(src, 1, 1 + Leading(Tail(src), "hex"))), calls)

C4_Witness ==
    /\ pc = "done" /\ Whole /\ ~CbFailed /\ IsBramEntry(src)
    /\ \E k \in DOMAIN calls : calls[k].fn = "on_data" /\ calls[k].n2 >= 1
    /\ calls[Len(calls)].fn = "on_commit"

\* the calls with the values they returned left out
Made(cs) == [k \in DOMAIN cs |-> [cs[k] EXCEPT !.ret = 1]]

(* C5: fail-fast.  A call that returned failure is the last call made; the  *)
(* calls made are those the input prefix gives when no callback fails; once *)
(* a reader has reported an error no call is added; after either failure    *)
(* control is back in read_conf, which returns failure.                     *)
C5_FailFast ==
    /\ \A k \in DOMAIN calls : k < Len(calls) => calls[k].ret = 1
    /\ IsPrefix(Made(calls), read_conf(inp, faulty).calls)
    /\ (errWrites > 0 /\ ~CbFailed)
          => Len(calls) = Len(read_conf(inp, faulty).calls)
    /\ (CbFailed \/ errWrites > 0) => (ok = 0 /\ pc \in {"top", "done"})
    /\ (pc = "done" /\ (CbFailed \/ errWrites > 0)) => result = 0

C5_Witness ==
    /\ pc = "done"
    /\ CbFailed
    /\ Len(calls) < Len(read_conf(inp, faulty).calls)
    /\ pos < Len(inp)

(* C6 as claimed: the buffer is written during read_conf if and only if     *)
(* read_conf returns failure.                                               *)
C6_WrittenIffFailure ==
    pc = "done" => ((errWrites > 0) <=> (result = 0))

(* C6 as amended: a written buffer means failure; a read fault of the       *)
(* stream always leaves a message; a failure without a message is a         *)
(* callback that returned failure on a stream without fault, and such a     *)
(* failure never writes the buffer.                                         *)
C6_WrittenIffParserFailure ==
    pc = "done" =>
        /\ errWrites > 0 => result = 0
        /\ ioerr => errWrites > 0
        /\ (result = 0 /\ errWrites = 0) => (CbFailed /\ ~ioerr)
        /\ (CbFailed /\ ~ioerr) => (result = 0 /\ errWrites = 0)

C6_Witness ==
    pc = "done" /\ CbFailed /\ ~ioerr /\ result = 0 /\ error = NoMsg

\* the loop of read_conf is about to read a token that is no verb
UnknownVerbNext == pc = "top" /\ ok = 1 /\ Fetch(Cur).more /\ Fetch(Cur).word \notin Verbs

UnknownVerbMsg == "unknown verb '%s'"

(* C7 as claimed: an unknown verb makes read_conf fail at once, with no     *)
(* further call, and the message holds the offending token in full.         *)
C7_WholeTokenNamed ==
    [][/\ UnknownVerbNext
          => /\ ok' = 0 /\ calls' = calls
             /\ error' = Msg(UnknownVerbMsg, TokenAt(inp, next_entry(inp, pos).pos))
       /\ (pc = "top" /\ ok = 0 /\ error.fmt = UnknownVerbMsg)
          => (pc' = "done" /\ result' = 0 /\ calls' = calls /\ error' = error)]_vars

(* C7 as amended: an unknown verb makes read_conf fail at once, with no     *)
(* further call; the message holds the first 15 characters of the token,    *)
(* and read_conf returns it unless the stream's error indicator is set,     *)
(* when the platform's error description replaces it.                       *)
C7_TokenPrefixNamed ==
    [][/\ UnknownVerbNext
          => /\ ok' = 0 /\ calls' = calls /\ pc' = "top"
             /\ error' = Msg(UnknownVerbMsg,
                             Take(TokenAt(inp, next_entry(inp, pos).pos), VerbWidth))
       /\ (pc = "top" /\ ok = 0 /\ error.fmt = UnknownVerbMsg)
          => /\ pc' = "done" /\ result' = 0 /\ calls' = calls
             /\ error' = IF ioerr THEN StrError ELSE error]_vars

C7_Witness ==
    /\ pc = "done" /\ result = 0
    /\ error.fmt = UnknownVerbMsg
    /\ Len(error.arg) = VerbWidth
    /\ pos < Len(inp) /\ inp[pos + 1] \notin Space

\* the loop of read_tile_conf is about to read a token that is no keyword
BadRecordNext == pc = "tile" /\ FetchRecord(Cur).more /\ FetchRecord(Cur).word \notin Keywords

BadRecordMsg == "unknown tile record type '%s'"

(* C8 as claimed: a body keyword that is none of arc:, word:, enum:,        *)
(* unknown: makes the entry and the parse fail with the message "unknown    *)
(* tile record type '<token>'", the token as read_tile_conf read it, and no *)
(* on_commit is made for the block.                                         *)
C8_BadRecordNamed ==
    [][/\ BadRecordNext
          => /\ ok' = 0 /\ calls' = calls /\ pc' = "top"
             /\ error' = Msg(BadRecordMsg,
                             Take(TokenAt(inp, next_record(inp, pos).pos), VerbWidth))
       /\ (pc = "top" /\ ok = 0 /\ error.fmt = BadRecordMsg)
          => (pc' = "done" /\ result' = 0 /\ calls' = calls /\ error' = error)]_vars

(* C8 as amended: such a keyword makes the entry and the parse fail and no  *)
(* on_commit is made for the block; the message is "unknown tile record     *)
(* type '<the first 15 characters of the token>'", which read_conf returns  *)
(* unless the stream's error indicator is set, when the platform's error    *)
(* description replaces it.                                                 *)
C8_BadRecordPrefixNamed ==
    [][/\ BadRecordNext
          => /\ ok' = 0 /\ calls' = calls /\ pc' = "top"
             /\ error' = Msg(BadRecordMsg,
                             Take(TokenAt(inp, next_record(inp, pos).pos), VerbWidth))
       /\ (pc = "top" /\ ok = 0 /\ error.fmt = BadRecordMsg)
          => /\ pc' = "done" /\ result' = 0 /\ calls' = calls
             /\ error' = IF ioerr THEN StrError ELSE error]_vars

C8_Witness ==
    /\ pc = "done" /\ result = 0
    /\ error.fmt = BadRecordMsg
    /\ calls # <<>> /\ calls[Len(calls)].fn # "on_commit"

\* the loop of read_conf is about to read .device, and what is left of its
\* line holds blanks only
BlankToLineEnd(s, b) == b = Len(s) \/ s[b + 1] = "\n"

DeviceNoNameNext ==
    /\ pc = "top" /\ ok = 1
    /\ Fetch(Cur).more
    /\ Fetch(Cur).word = V_device
    /\ BlankToLineEnd(inp, SpanIn(inp, Fetch(Cur).st.pos, Blank))

(* C9: .device with no name token on its line fails with a syntax error     *)
(* and makes no on_device call; the token of the next line is not taken as  *)
(* the device name.                                                         *)
C9_DeviceNeedsName ==
    [][DeviceNoNameNext
          => (ok' = 0 /\ calls' = calls /\ error' = Msg("device name required", <<>>))]_vars

---------------------------------------------------------------------------
(* bitmap_export: the file written                                         *)

\* the byte whose bit k is bit 7 - k of b
RECURSIVE Reversed(_, _)
Reversed(b, n) ==
    IF n = 0 THEN 0 ELSE (b % 2) * 2 ^ (n - 1) + Reversed(b \div 2, n - 1)

RowBytes(o) == (o.width + 7) \div 8

PackedByte(o, row, j) ==
    Reversed(AndBits(o.bits[row * o.pitch + j + 1], o.mask[row * o.pitch + j + 1], 8), 8)

\* height * ceil (width / 8) bytes, row by row
PackedRows(o) ==
    [k \in 1..(o.height * RowBytes(o)) |->
        PackedByte(o, (k - 1) \div RowBytes(o), (k - 1) % RowBytes(o))]

(* C10: a bitmap_export that returns 1 with every write done has written    *)
(* the header "P4\n<width> <height>\n" and then height * ceil (width / 8)   *)
(* payload bytes, row by row, the byte for columns 8j..8j+7 of row y being  *)
(* the bit-reversed value of bits[y*pitch+j] AND mask[y*pitch+j], each      *)
(* written once.                                                            *)
C10_PackedRows ==
    (bpc = "done" /\ bres = 1 /\ ~werr)
        => (hdr = Header(bm.width, bm.height) /\ payload = PackedRows(bm))

(* C11: bitmap_export returns 1 only when every write succeeded; when a     *)
(* write failed (header, payload byte or close) it returns 0 and the file   *)
(* has been removed.                                                        *)
C11_WriteFailureFails ==
    bpc = "done" =>
        /\ werr => (bres = 0 /\ removed)
        /\ bres = 1 => ~werr

\* this step made a call that returned failure
CallFailedNow == Len(calls') > Len(calls) /\ calls'[Len(calls')].ret = 0

(* C12: when a reader's callback returns failure the reader returns failure *)
(* to read_conf's loop without writing the error buffer, and read_conf      *)
(* returns failure with the buffer as it was, unless the stream has an I/O  *)
(* error.                                                                   *)
C12_CallbackFailureSilent ==
    [][/\ CallFailedNow
          => (ok' = 0 /\ pc' = "top" /\ error' = error /\ errWrites' = errWrites)
       /\ (pc = "top" /\ CbFailed)
          => /\ pc' = "done" /\ result' = 0 /\ calls' = calls
             /\ ~ioerr => (error' = NoMsg /\ errWrites' = 0)]_vars

C12_Witness ==
    /\ pc = "done" /\ result = 0
    /\ Len(calls) >= 2 /\ calls[Len(calls)].ret = 0
    /\ calls[Len(calls)].fn \in {"on_arc", "on_data", "on_sysconfig"}
    /\ ~ioerr /\ errWrites = 0

(* C13: during one read_conf call the error buffer is written at most once, *)
(* also when a read fault makes a reader's field extraction fail and the    *)
(* stream's error indicator is found set after the loop.                    *)
C13_WrittenAtMostOnce == errWrites <= 1

(* C13 as amended: the loop of read_conf writes the buffer at most once,    *)
(* and on a stream without I/O error that is the only write; when the       *)
(* stream's error indicator is set after the loop, read_conf writes the     *)
(* platform's error description once more, over a reader's message if there *)
(* is one, so the buffer is written at most twice.                          *)
C13_WrittenOnceThenOverwritten ==
    /\ errWrites <= 2
    /\ pc # "done" => errWrites <= 1
    /\ ~ioerr => errWrites <= 1
    /\ errWrites = 2 => error = StrError
    /\ (pc = "done" /\ ioerr) => (errWrites >= 1 /\ error = StrError)

C13_Witness == pc = "done" /\ errWrites = 2 /\ result = 0 /\ Len(inp) > 0

---------------------------------------------------------------------------
(* Termination of read_conf                                                *)

\* the guards of the actions of Next: some step can be taken
Going ==
    \/ pc = "top" /\ ok = 1 /\ Fetch(Cur).more /\ Fetch(Cur).word \in Verbs
    \/ pc = "top" /\ ok = 1 /\ Fetch(Cur).more /\ Fetch(Cur).word \notin Verbs
    \/ pc = "top" /\ (ok # 1 \/ ~Fetch(Cur).more)
    \/ pc = "tile" /\ FetchRecord(Cur).more /\ FetchRecord(Cur).word \in Keywords
    \/ pc = "tile" /\ FetchRecord(Cur).more /\ FetchRecord(Cur).word \notin Keywords
    \/ pc = "tile" /\ ~FetchRecord(Cur).more
    \/ pc = "bram" /\ next_record(inp, pos).more
    \/ pc = "bram" /\ ~next_record(inp, pos).more

\* read_conf is sequential code: a step that can be taken is taken.  This is
\* WF_vars(Next) with Going for ENABLED <<Next>>_vars; every step of Next
\* changes vars
Fair == []<>(~Going) \/ []<><<TRUE>>_vars

SpecFair == Init /\ [][Next]_vars /\ Fair

\* one pass of the loop of read_conf, read_tile_conf or read_bram consumes
\* input or leaves its loop
PassAdvances ==
    \/ pos' > pos
    \/ pc' = "done"
    \/ pc \in {"tile", "bram"} /\ pc' = "top"

\* one pass of the loop of next_entry consumes the '#' it saw, and one pass
\* of the name loop of read_tile_group that goes on has consumed a name
InnerLoopsAdvance ==
    \A p \in 0..Len(inp) :
        /\ (p < Len(inp) /\ inp[p + 1] = "#") => ScanHashLine(inp, p) > p
        /\ ScanName(inp, p).n = 1 => ScanName(inp, p).pos > p

(* C14: on every finite input, with callbacks that return, read_conf        *)
(* terminates: every pass of each of its loops consumes at least one input  *)
(* character or leaves the loop.                                            *)
C14_Terminates ==
    /\ [][PassAdvances]_vars
    /\ []InnerLoopsAdvance
    /\ <>(pc = "done")

C14_Witness ==
    /\ pc = "done" /\ result = 1 /\ Whole
    /\ Len(src) = 2
    /\ Pieces[src[1]].kind = "cmt"
    /\ Pieces[src[2]] = P_group
    /\ Len(calls) = 3

---------------------------------------------------------------------------
(* Commits and blocks                                                      *)

Commits(cs) == Cardinality({k \in DOMAIN cs : cs[k].fn = "on_commit"})

\* the block entries (.tile, .tile_group, .bram_init) of the pieces
Blocks(ps) == Cardinality({k \in DOMAIN ps : Pieces[ps[k]].kind \in {"tile", "bram"}})

\* call k is the last event of a block: a block was opened before it and
\* nothing but the block's own calls lies between
ClosesBlock(cs, k) ==
    \E j \in 1..(k - 1) :
        /\ cs[j].fn \in {"on_tile", "on_bram"}
        /\ \A m \in (j + 1)..(k - 1) :
              cs[m].fn \notin {"on_commit", "on_device", "on_comment", "on_sysconfig"}

(* C15: commit pairing.  Every on_commit is the last event of a block that  *)
(* was opened, so commits never outnumber the blocks opened and none is     *)
(* made for .device, .comment or .sysconfig; when read_conf returns success *)
(* the number of commits is the number of block entries in the input, those *)
(* with an empty body included.                                             *)
C15_CommitPairing ==
    /\ \A k \in DOMAIN calls : calls[k].fn = "on_commit" => ClosesBlock(calls, k)
    /\ (pc = "done" /\ Whole /\ result = 1) => Commits(calls) = Blocks(src)

---------------------------------------------------------------------------
(* Block ends                                                              *)

\* this step made the on_commit that ends a block body
CommitNow ==
    /\ pc \in {"tile", "bram"}
    /\ Len(calls') = Len(calls) + 1
    /\ calls'[Len(calls')].fn = "on_commit"

\* after the white space at p the stream has '.' or nothing
DotOrEndAt(s, a) == a = Len(s) \/ s[a + 1] = "."

\* what a step of the model does about the end of a block body
BlockEndStep ==
    /\ CommitNow
          => /\ pos' = SpanIn(inp, pos, Space)
             /\ DotOrEndAt(inp, pos')
    /\ (pc \in {"tile", "bram"} /\ DotOrEndAt(inp, SpanIn(inp, pos, Space)))
          => CommitNow
    /\ (pc = "top" /\ ok = 1 /\ calls # <<>> /\ calls[Len(calls)].fn = "on_commit"
          /\ pos < Len(inp))
          => /\ inp[pos + 1] = "."
             /\ Fetch(Cur).more
             /\ Fetch(Cur).word = Take(TokenAt(inp, pos), VerbWidth)

(* C16: in a tile or bram block body the commit that ends the block is made *)
(* exactly when the next character after white space is '.' or the stream   *)
(* has ended; the lookahead consumes white space only, so that the '.' is   *)
(* the next character of the stream and the top-level loop reads the verb   *)
(* from it.                                                                 *)
C16_BlockEndsAtDot == [][BlockEndStep]_vars

---------------------------------------------------------------------------
(* The names of a .tile_group header                                       *)

\* the loop of read_conf is about to read .tile_group
GroupNext ==
    /\ pc = "top" /\ ok = 1
    /\ Fetch(Cur).more
    /\ Fetch(Cur).word = V_tile_group

\* where the line that holds position p ends
LineEnd(s, p) == SpanOut(s, p, NL, NoWidth(s))

\* what the step that reads a .tile_group header does: it makes on_tile
\* calls only, and reads nothing but white space beyond the header line
HeaderStep ==
    GroupNext
       => /\ \A k \in (Len(calls) + 1)..Len(calls') : calls'[k].fn = "on_tile"
          /\ pos' <= SpanIn(inp, LineEnd(inp, Fetch(Cur).st.pos), Space)

(* C17: in a .tile_group entry on_tile is called for the name tokens of the *)
(* header only, before any body record is read; the first body-record       *)
(* keyword and its fields are never consumed as tile names, also when       *)
(* blanks are left at the end of the header line.                           *)
C17_NamesFromHeaderOnly == [][HeaderStep]_vars

---------------------------------------------------------------------------
(* sample_msb on every byte value                                          *)

Bytes == 0..255

\* a bitmap of one pixel row of one byte b, nothing masked out
OneByte(b) ==
    [width |-> 1, height |-> 1, pitch |-> 1, bits |-> <<b>>, mask |-> <<255>>]

InitMsb ==
    /\ ConfIdle
    /\ bm \in {OneByte(b) : b \in Bytes}
    /\ hdr = <<>>
    /\ payload = <<>>
    /\ y = 0
    /\ x = 0
    /\ werr = FALSE
    /\ opens = 0
    /\ closes = 0
    /\ removed = FALSE
    /\ bpc = "open"
    /\ bres = 0

SpecMsb == InitMsb /\ [][NextBmp]_vars

(* C18: for every byte value b in 0..255, sample_msb (b) is the byte whose  *)
(* bit i is bit 7 - i of b, the 64-bit product being truncated to 8 bits.   *)
C18_SampleIsReversal ==
    /\ sample_msb(bm.bits[1]) \in Bytes
    /\ sample_msb(bm.bits[1]) = Reversed(bm.bits[1], 8)
    /\ \A k \in DOMAIN payload : payload[k] = Reversed(bm.bits[1], 8)

C18_Witness ==
    /\ bpc = "done" /\ bres = 1
    /\ bm.bits = <<19>>
    /\ payload = <<200>>

(* C19: every token string a reader allocated is released before the       *)
(* reader returns, on the success path and on the failure path of a         *)
(* two-field reader whose second field is missing; none is outstanding      *)
(* when read_conf returns.                                                  *)
C19_TokensReleased == live = 0

(* C20: once bitmap_export has opened the file it closes it exactly once on *)
(* every path to its return (success, header write failure, close failure); *)
(* when opening fails nothing is closed or removed.                         *)
C20_ClosedOnce ==
    /\ closes <= opens
    /\ bpc \in {"done", "abort"} => (bpc = "done" /\ closes = opens)
    /\ opens = 0 => (closes = 0 /\ ~removed)

===========================================================================
